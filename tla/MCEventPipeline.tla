--------------------------- MODULE MCEventPipeline ---------------------------
(* Instances of EventPipeline for TLC. *)
EXTENDS EventPipeline, TLC

CONSTANTS k1, k2, w1, w2

\* Events 1 and 2 are two requests with the same dedupe key; or each has its own.
SharedKey == [e \in Events |-> k1]
OwnKeys == [e \in Events |-> IF e = 1 THEN k1 ELSE k2]

WorkerSymmetry == Permutations(Workers)
=============================================================================
