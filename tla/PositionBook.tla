----------------------------- MODULE PositionBook -----------------------------
(***************************************************************************)
(* What the risk gate, execution and the positions loop promise together   *)
(* about the positions, however their transactions overlap: the book is    *)
(* what orders and closings leave that are carried out one at a time.  An  *)
(* order has both levels, so that the positions loop can close what it     *)
(* buys; it opens a position or adds to an open one of its symbol and side *)
(* exactly what it buys.  A closing ends positions for good and changes    *)
(* nothing else.                                                           *)
(***************************************************************************)
EXTENDS Integers, Sequences

CONSTANTS
  None,
  Orders

VARIABLE book    \* the positions, in the order they were opened

Init == book = << >>

Protected(o) == o.stopLoss # None /\ o.takeProfit # None

Line(o) ==
  [symbol |-> o.symbol, side |-> o.side, quantity |-> o.quantity, cost |-> o.price * o.quantity,
   stopLoss |-> o.stopLoss, takeProfit |-> o.takeProfit, status |-> "OPEN"]

Open(o) == Protected(o) /\ book' = Append(book, Line(o))

\* The levels are those of the last order.
Grown(line, o) ==
  [symbol |-> line.symbol, side |-> line.side,
   quantity |-> line.quantity + o.quantity, cost |-> line.cost + o.price * o.quantity,
   stopLoss |-> o.stopLoss, takeProfit |-> o.takeProfit, status |-> line.status]

\* What is bought has an average price, so an order never takes the quantity to zero.
Add(o, n) ==
  /\ Protected(o)
  /\ book[n].quantity + o.quantity # 0
  /\ book[n].status = "OPEN" /\ book[n].symbol = o.symbol /\ book[n].side = o.side
  /\ book' = [book EXCEPT ![n] = Grown(book[n], o)]

Close(ended) ==
  book' = [n \in DOMAIN book |-> IF n \in ended THEN [book[n] EXCEPT !.status = "CLOSED"] ELSE book[n]]

Next ==
  \/ \E ended \in SUBSET DOMAIN book : Close(ended)
  \/ \E o \in Orders : Open(o) \/ \E n \in DOMAIN book : Add(o, n)

Spec == Init /\ [][Next]_book
=============================================================================
