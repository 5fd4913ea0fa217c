\* Two transactions and two positions loops on one symbol.
CONSTANTS
  None = None  btc = btc  eth = eth  h1 = h1  h2 = h2  r1 = r1  r2 = r2
  Symbols = {btc, eth}
  Signals <- BothSides
  RuntimeSettings <- Generous
  Prices <- Zero
  Handlers = {h1, h2}
  Reconcilers = {r1, r2}
  PositionsCap = 2
  ExposureCap = 100
  OrderCap = 4
  MaxOrders = 3
  MaxDay = 1
SPECIFICATION Spec
SYMMETRY Symmetry
INVARIANT FillsConserved
PROPERTIES ClosedKeepsItsFills ImplementsBook
\* The system stops when the bounds are reached and the kill switch cannot move.
CHECK_DEADLOCK FALSE
