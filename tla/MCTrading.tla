------------------------------ MODULE MCTrading ------------------------------
(* Instances of Trading for TLC. *)
EXTENDS Trading, TLC

CONSTANTS btc, eth, h1, h2, r1, r2

Order(symbol, side, quantity, price, stop, target) ==
  [symbol |-> symbol, side |-> side, price |-> price, quantity |-> quantity,
   stopLoss |-> stop, takeProfit |-> target]

BuyBtc == Order(btc, "BUY", 1, 4, 3, 6)
SellBtc == Order(btc, "SELL", -1, 4, 5, 0)
PoorReward == Order(eth, "BUY", 1, 2, 1, 3)
NoStop == Order(eth, "BUY", 1, 2, None, 6)

BothSides == {BuyBtc, SellBtc, PoorReward, NoStop}

\* The last one passes the exposure cap only beside the second.  The first two leave
\* no quantity together.
TwoSymbols == {BuyBtc, Order(btc, "BUY", -1, 8, 6, 12), Order(eth, "BUY", 2, 8, 6, 12)}

Runtime(kill, positionLimit, lossLimit, cap) ==
  [killSwitch |-> kill, maxPositions |-> positionLimit, dailyLossLimit |-> lossLimit,
   minRewardRisk |-> 15, exposureCap |-> cap]

\* Two closings at a loss end the day.
Generous == {Runtime(FALSE, 2, 5, 100)}

\* An administrator turns the kill switch on and off and moves the limits.
Changing == {Runtime(FALSE, 2, 100, 8), Runtime(FALSE, 0, 2, 4), Runtime(TRUE, 2, 100, 8)}

\* The stop of BuyBtc and the target of SellBtc; a target of every buy.
Zero == {0}
High == {12}

HandlerSymmetry == Permutations(Handlers)
Symmetry == Permutations(Handlers) \cup Permutations(Reconcilers)
=============================================================================
