---------------------------- MODULE MCBridgeMpi ----------------------------
(* The runs of BridgeMpi.                                                  *)
EXTENDS BridgeMpi, MCPackets
=============================================================================
