--------------------------- MODULE MCModelLifecycle ---------------------------
(* Instances of ModelLifecycle for TLC. *)
EXTENDS ModelLifecycle

CONSTANTS t1, t2, api
=============================================================================
