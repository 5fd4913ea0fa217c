------------------------------ MODULE LossyFeed ------------------------------
(***************************************************************************)
(* What a websocket client of the dashboard may rely on: each message it   *)
(* receives is one that was published after every message it has received  *)
(* before, on this connection or an earlier one.  Messages may be missing. *)
(***************************************************************************)
EXTENDS Naturals

CONSTANT Clients

VARIABLES
  published,       \* how many messages have been published
  latest           \* the last one each client has received, 0 for none

vars == << published, latest >>

Init == published = 0 /\ latest = [c \in Clients |-> 0]

Publish == published' = published + 1 /\ UNCHANGED latest

Receive(c) ==
  /\ \E n \in latest[c] + 1 .. published : latest' = [latest EXCEPT ![c] = n]
  /\ UNCHANGED published

Next == Publish \/ \E c \in Clients : Receive(c)

Spec == Init /\ [][Next]_vars
=============================================================================
