----------------------------- MODULE MCPackets -----------------------------
(***************************************************************************)
(* Packets for the runs of the transport modules: two processes with two   *)
(* tiles each (tiles 1 and 2 on process 0, 3 and 4 on process 1).          *)
(***************************************************************************)

(* Packets 1 and 2 carry the same To and a Return_to that is not the tile  *)
(* that creates them, as those of test_all_tiles_in_node_send do (the To   *)
(* of packet 2 is above the largest node_id and wraps).  3 is for the same *)
(* tile from another Return_to, 4 stays on its process.                    *)
MixSource == <<2, 2, 2, 2>>
MixTo == <<3, 7, 3, 1>>
MixReturnTo == <<1, 1, 2, 2>>
MixDresp == {1, 2, 3}

(* Each packet carries its source as Return_to.  1 and 2 go from one tile  *)
(* to another, 3 from a second tile to the same one, 4 the other way, so   *)
(* that the processes send to each other.  1 and 3 have an array.          *)
SerialSource == <<1, 1, 2, 3>>
SerialTo == <<3, 3, 3, 1>>
SerialReturnTo == SerialSource
SerialDresp == {1, 3}

(* As 1 and 2 of the mix, but created by two tiles, with a packet that     *)
(* goes the other way.                                                     *)
PairSource == <<1, 2, 3>>
PairTo == <<3, 3, 1>>
PairReturnTo == <<1, 1, 3>>
PairDresp == {1, 2, 3}

=============================================================================
