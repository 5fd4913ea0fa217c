----------------------------- MODULE MCTraining -----------------------------
(* Instances of Training for TLC. *)
EXTENDS Training

\* A bar touches nothing, rises to the upper barrier, or swings to both.
Steps == [calm |-> [up |-> 0, down |-> 0, move |-> 0],
          rise |-> [up |-> 2, down |-> 0, move |-> 2],
          swing |-> [up |-> 2, down |-> 1, move |-> 0]]

\* Prices start at 10; a path gives the steps of the bars.
Priced(path) ==
  LET open[i \in 1 .. Len(path) + 1] == IF i = 1 THEN 10 ELSE open[i - 1] + Steps[path[i - 1]].move
  IN  [i \in DOMAIN path |->
         [high |-> open[i] + Steps[path[i]].up, low |-> open[i] - Steps[path[i]].down,
          close |-> open[i + 1]]]

\* Nine bars with a row and the bars of the last label, at most one swing; and
\* a history too short to train on.
Calm(n) == [i \in 1 .. n |-> "calm"]
Paths == {p \in [1 .. 8 -> {"calm", "rise", "swing"}] : Cardinality({i \in 1 .. 8 : p[i] = "swing"}) <= 1}
AllHistories == {Priced(Calm(4) \o p) : p \in Paths} \cup {Priced(Calm(5))}

Sides == {[side |-> 1, sure |-> 2], [side |-> -1, sure |-> 1], [side |-> 0, sure |-> 2]}
TwoThresholds == << 1, 2 >>
=============================================================================
