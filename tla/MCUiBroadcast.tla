--------------------------- MODULE MCUiBroadcast ---------------------------
(* Instances of UiBroadcast for TLC. *)
EXTENDS UiBroadcast

CONSTANTS c1, c2
=============================================================================
