---------------------------- MODULE MCSequential ----------------------------
(***************************************************************************)
(* Codec and Topology side by side.  They share no state: the process that *)
(* finds its place in the grid and the packet take their steps in any      *)
(* order.  To keep the states few, one of the two is in its simplest case: *)
(* the grid has one process, or the packet is a first one.                 *)
(***************************************************************************)
EXTENDS Codec, Topology

SimplestGrid == rows = 1 /\ cols = 1 /\ ~opt

SimplestPacket ==
  args = [rank |-> 0, type |-> P_DRESP, to |-> 1, return_to |-> 1]

BothInit == Init /\ TopologyInit /\ (SimplestGrid \/ SimplestPacket)

BothNext ==
  \/ Next /\ UNCHANGED topologyVars
  \/ TopologyNext /\ UNCHANGED vars

BothSpec == BothInit /\ [][BothNext]_<<vars, topologyVars>>

=============================================================================
