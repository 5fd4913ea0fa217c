\* Two transactions for one symbol.
CONSTANTS
  None = None  btc = btc  eth = eth  h1 = h1  h2 = h2  r1 = r1  r2 = r2
  Symbols = {btc, eth}
  Signals <- BothSides
  RuntimeSettings <- Generous
  Prices <- High
  Handlers = {h1, h2}
  Reconcilers = {}
  PositionsCap = 2
  ExposureCap = 100
  OrderCap = 4
  MaxOrders = 2
  MaxDay = 0
SPECIFICATION Spec
INVARIANT OnePositionPerSymbol
\* The system stops when the bounds are reached and the kill switch cannot move.
CHECK_DEADLOCK FALSE
