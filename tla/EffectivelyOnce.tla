--------------------------- MODULE EffectivelyOnce ---------------------------
(***************************************************************************)
(* What the outbox, the stream, the inbox and the retries of EventPipeline *)
(* promise together to the sender of a webhook: an accepted event commits  *)
(* its order at most once, and the ui_updates message about it comes after *)
(* the order and at most once, whatever is crashed, claimed or replayed.   *)
(***************************************************************************)
EXTENDS Naturals

CONSTANTS Events

VARIABLES accepted, orders, uiUpdates

vars == << accepted, orders, uiUpdates >>

Init ==
  /\ accepted = {}
  /\ orders = [e \in Events |-> 0]
  /\ uiUpdates = [e \in Events |-> 0]

Accept(e) ==
  /\ e \notin accepted
  /\ accepted' = accepted \cup {e}
  /\ UNCHANGED << orders, uiUpdates >>

Execute(e) ==
  /\ e \in accepted
  /\ orders[e] = 0
  /\ orders' = [orders EXCEPT ![e] = 1]
  /\ UNCHANGED << accepted, uiUpdates >>

Notify(e) ==
  /\ orders[e] = 1
  /\ uiUpdates[e] = 0
  /\ uiUpdates' = [uiUpdates EXCEPT ![e] = 1]
  /\ UNCHANGED << accepted, orders >>

Next == \E e \in Events : Accept(e) \/ Execute(e) \/ Notify(e)

Spec == Init /\ [][Next]_vars
=============================================================================
