----------------------------- MODULE BridgeMpi -----------------------------
(***************************************************************************)
(* The receiving threads with each version of MPI.  From version 3 a probe *)
(* (MPI_Improbe) takes the message out of the reach of other receives, as  *)
(* in Bridge.  Before, a thread probes (MPI_Iprobe), then posts a receive  *)
(* (MPI_Irecv) for the source and tag that it found, then waits until some *)
(* message has matched it; and it probes for a packet with any tag.        *)
(***************************************************************************)
EXTENDS Bridge

CONSTANT MpiVersion  \* the versions: a subset of {2, 3}

ASSUME MpiAssumption == MpiVersion \subseteq {2, 3}

VARIABLES
  mpi,   \* MPI_VERSION
  probe  \* probe[th]: status, as the last MPI_Iprobe of th has left it

mpiVars == <<vars, mpi, probe>>

(* Further positions of a receiving thread:                                *)
(*   probed, arrayProbed  MPI_Iprobe has found a message                   *)
(*   posted, arrayPosted  in the MPI_Test loop after MPI_Irecv             *)
(*   garbage              it takes the floats of an array for a packet     *)

NoStatus == [MPI_SOURCE |-> 0, MPI_TAG |-> tag_default, pkt |-> 0]

MpiInit ==
  /\ Init
  /\ mpi \in MpiVersion
  /\ probe = [th \in Thread |-> NoStatus]

-----------------------------------------------------------------------------
(* MPI *)

\* The receives of process r for messages from s with a tag that wait.
Pending(s, r, tag) ==
  {th \in Thread : /\ th[1] = r /\ recv[th].pc \in {"posted", "arrayPosted"}
                   /\ probe[th].MPI_SOURCE = s /\ probe[th].MPI_TAG = tag}

(* Message i from s to r is visible to a probe unless a receive has been   *)
(* posted that gets it: k receives get the first k messages with their     *)
(* tag.  (Which of them gets which is left open.)                          *)
Visible(s, r, i) ==
  LET tag == net[s][r][i].tag IN
    Cardinality({j \in 1 .. i : net[s][r][j].tag = tag}) > Cardinality(Pending(s, r, tag))

(* What MPI_Iprobe on process r finds among the messages from s with a tag *)
(* in a set: the first that is visible.                                    *)
Probed(s, r, tags) ==
  {i \in DOMAIN net[s][r] :
     /\ Visible(s, r, i) /\ net[s][r][i].tag \in tags
     /\ \A j \in 1 .. i - 1 : Visible(s, r, j) => net[s][r][j].tag \notin tags}

\* MPI_Iprobe(MPI_ANY_SOURCE) by thread th.
Iprobe(th, tags, to) ==
  /\ \E s \in Rank : \E i \in Probed(s, th[1], tags) :
       probe' = [probe EXCEPT ![th] = [MPI_SOURCE |-> s, MPI_TAG |-> net[s][th[1]][i].tag,
                                       pkt |-> net[s][th[1]][i].pkt]]
  /\ recv' = [recv EXCEPT ![th].pc = to]
  /\ UNCHANGED <<created, tx, transmitting, bridge_pos, send, net, heap, rx, mpi>>

\* MPI_Irecv of what th has probed.
Irecv(th, from, to) ==
  /\ recv[th].pc = from
  /\ recv' = [recv EXCEPT ![th].pc = to]
  /\ UNCHANGED <<created, tx, transmitting, bridge_pos, send, net, heap, rx, mpi, probe>>

(* MPI_Test finds that message i has matched the receive of th.  (What     *)
(* status holds from then on is not used.)                                 *)
Received(th, i) ==
  /\ LET s == probe[th].MPI_SOURCE IN
       /\ net[s][th[1]][i].tag = probe[th].MPI_TAG /\ ~Visible(s, th[1], i)
       /\ Take(s, th[1], i)
  /\ probe' = [probe EXCEPT ![th] = NoStatus]

ReceivedPacket(th, i) == net[probe[th].MPI_SOURCE][th[1]][i].pkt

-----------------------------------------------------------------------------
(* A receiving thread before MPI 3 *)

AnyTag == {tag_default} \cup {DataTag(p) : p \in Dresp}

\* recv_lock is a member of Bridge: each receiving thread has its own.
recv_lock(th) == th

\* A mistake: the probe does not ask for the tag of the array.
ArrayTags_Any(th) == AnyTag

\* The tag that the probe for an array asks for.
ArrayTags(th) == {DataTag(recv[th].pkt)}

\* The lock is acquired, and there is a message.  (If not, it is released.)
ProbePacket(th) ==
  /\ mpi = 2 /\ recv[th].pc = "listen"
  /\ \A o \in Thread : recv_lock(o) = recv_lock(th) => recv[o].pc # "probed"
  /\ Iprobe(th, AnyTag, "probed")

\* MPI_Irecv, and the lock is released.
PostPacket(th) == Irecv(th, "probed", "posted")

\* The message has come: a packet, or the array of another packet.
MatchPacket(th) ==
  /\ recv[th].pc = "posted"
  /\ \E i \in DOMAIN net[probe[th].MPI_SOURCE][th[1]] :
       /\ Received(th, i)
       /\ LET p == ReceivedPacket(th, i) IN
            recv' = [recv EXCEPT
                       ![th] = [pc |-> IF probe[th].MPI_TAG # tag_default THEN "garbage"
                                       ELSE IF p \in Dresp THEN "awaitArray" ELSE "store",
                                pkt |-> p, ptr |-> OwnPointer(p)]]
  /\ UNCHANGED <<created, tx, transmitting, bridge_pos, send, heap, rx, mpi>>

ProbeArray(th) ==
  /\ mpi = 2 /\ recv[th].pc = "awaitArray"
  /\ Iprobe(th, ArrayTags(th), "arrayProbed")

PostArrayRecv(th) == Irecv(th, "arrayProbed", "arrayPosted")

MatchArray(th) ==
  /\ recv[th].pc = "arrayPosted"
  /\ \E i \in DOMAIN net[probe[th].MPI_SOURCE][th[1]] :
       /\ Received(th, i)
       /\ LET arr == [space |-> th[1], data |-> ReceivedPacket(th, i)] IN
            /\ heap' = heap \cup {arr}
            /\ recv' = [recv EXCEPT ![th].pc = "store", ![th].ptr = NewWord(@, arr)]
  /\ UNCHANGED <<created, tx, transmitting, bridge_pos, send, rx, mpi>>

-----------------------------------------------------------------------------

MpiThreadStep(th) ==
  \/ ProbePacket(th) \/ PostPacket(th) \/ MatchPacket(th)
  \/ ProbeArray(th) \/ PostArrayRecv(th) \/ MatchArray(th)
  \/ /\ \/ mpi = 3 /\ (ReceiveHeader(th) \/ ReceiveArray(th))
        \/ Store(th)
     /\ UNCHANGED <<mpi, probe>>

MpiNext ==
  \/ /\ \/ \E p \in Packet : Create(p) \/ SendStep(p)
        \/ \E t \in Tile : TileStep(t)
     /\ UNCHANGED <<mpi, probe>>
  \/ \E th \in Thread : MpiThreadStep(th)

MpiSpec ==
  /\ MpiInit /\ [][MpiNext]_mpiVars
  /\ SenderFairness /\ \A th \in Thread : WF_mpiVars(MpiThreadStep(th))

-----------------------------------------------------------------------------
(* Properties *)

(* "the thread that gets a true flag also receives the incoming message":  *)
(* between the probe and the receive no other thread takes it.             *)
GetsWhatItProbed ==
  \A th \in Thread : recv[th].pc \in {"probed", "arrayProbed"} =>
    LET s == probe[th].MPI_SOURCE IN
      \E i \in Probed(s, th[1], {probe[th].MPI_TAG}) :
        net[s][th[1]][i].pkt = probe[th].pkt

(* With one bridge a thread that probes and then receives does no more and *)
(* no less than one that does both at once: what Bridge says of MPI 3      *)
(* holds before it, and MPI_ANY_TAG never takes an array for a packet.     *)
B == INSTANCE Bridge WITH
       recv <- [th \in Thread |->
                  [recv[th] EXCEPT !.pc =
                     CASE @ \in {"probed", "posted"} -> "listen"
                       [] @ \in {"arrayProbed", "arrayPosted"} -> "awaitArray"
                       [] OTHER -> @]]

ImplementsBridge == B!Spec

=============================================================================
