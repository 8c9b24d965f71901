------------------------------ MODULE MCBridge ------------------------------
(* The runs of Bridge.                                                     *)
EXTENDS Bridge, MCPackets
=============================================================================
